---- MODULE Spec2Model ----
(***************************************************************************)
(* beerPong: a thin HTTP service.  main() loads the environment, builds    *)
(* the Redis and Permit.io clients and serves two routes:                  *)
(*   POST /throw        -> throwBallHandler (records a throw in Redis)     *)
(*   GET  /cup/{cup_id} -> cupHandler       (asks Permit.io for a verdict) *)
(* Each request runs in its own goroutine; the only points at which two    *)
(* requests can interleave are the calls to the external services, so a    *)
(* handler is split into steps exactly at those calls.                     *)
(* Time is counted in minutes.                                             *)
(***************************************************************************)
EXTENDS Integers, Sequences, FiniteSets, TLC

\* ---- bounds of the model ----
MaxThrows == 2
MaxCups == 2
MaxTime == 5
MaxWait == 11
MixedThrows == 1
MixedCups == 1

\* ---- program constants ----
\* time.Minute*5, the expiry handed to RedisClient.Set
TTL == 5
\* 10*time.Second, the timeout of the context cupHandler creates
CtxTimeout == 10

\* ---- input alphabets ----
UserIDs == {"", "alice", "bob"}
Roles == {"player"}
Actions == {"", "throw"}
Targets == {"", "cup3", "cup7"}
CupIDs == {"cup3", "cup7"}

\* type BallRequest struct { UserID, Role, Action, Target string }
BallRequest == [UserID : UserIDs, Role : Roles \cup {""}, Action : Actions, Target : Targets]

\* var req BallRequest : the zero value of the struct
ZeroBallRequest == [UserID |-> "", Role |-> "", Action |-> "", Target |-> ""]

\* A request body as it arrives: unreadable, not JSON, or a JSON object in
\* which user_id, action and target may each be absent.
JSONObjects ==
    { [kind |-> "json", user_id |-> u, role |-> r, action |-> a, target |-> t] :
        u \in UserIDs \cup {"absent"}, r \in Roles,
        a \in Actions \cup {"absent"}, t \in Targets \cup {"absent"} }

Bodies == { [kind |-> "unreadable"], [kind |-> "malformed"] } \cup JSONObjects

\* json.Unmarshal(body, &req): a key that is absent leaves the zero value.
Field(v) == IF v = "absent" THEN "" ELSE v

Unmarshal(body) ==
    [UserID |-> Field(body.user_id), Role |-> Field(body.role),
     Action |-> Field(body.action), Target |-> Field(body.target)]

VARIABLES
    env,          \* the process environment: does .env load, value of API_KEY
    mainPc,       \* position of main()
    RedisClient,  \* config.RedisClient : "nil" or "client"
    PermitClient, \* config.PermitClient : "nil" or "client"
    now,          \* minutes since the service began serving
    cache,        \* the Redis keyspace: a set of [key, value, ttl, at]
    setLog,       \* every RedisClient.Set call issued, in the order Redis saw them
    throws,       \* POST /throw requests, in order of arrival
    pdp,          \* the policy held by the policy-decision service
    cups          \* GET /cup/{cup_id} requests, in order of arrival

vars == <<env, mainPc, RedisClient, PermitClient, now, cache, setLog, throws, pdp, cups>>

Init ==
    /\ env \in [dotenv : BOOLEAN, API_KEY : {"", "permit_key"}]
    /\ mainPc = "start"
    /\ RedisClient = "nil"
    /\ PermitClient = "nil"
    /\ now = 0
    /\ cache = {}
    /\ setLog = <<>>
    /\ throws = <<>>
    /\ pdp = {}
    /\ cups = <<>>

\* ---------------------------------------------------------------------------
\* main() and the config package
\* ---------------------------------------------------------------------------

\* CheckEnv with log.Printf in place of log.Fatalf.
CheckEnvNotFatal(value) == [value |-> value, fatal |-> FALSE]

\* config.CheckEnv: an empty value is fatal (log.Fatalf exits the process).
CheckEnv(value) == [value |-> value, fatal |-> (value = "")]

\* main: godotenv.Load(); a load error is fatal.
LoadEnv ==
    /\ mainPc = "start"
    /\ mainPc' = IF env.dotenv THEN "RedisInit" ELSE "exit"
    /\ UNCHANGED <<env, RedisClient, PermitClient, now, cache, setLog, throws, pdp, cups>>

\* config.RedisInit: build the client, ping; a failed ping resets the handle to nil.
RedisInit ==
    /\ mainPc = "RedisInit"
    /\ \E pong \in BOOLEAN :
          RedisClient' = IF pong THEN "client" ELSE "nil"
    /\ mainPc' = "PermitInit"
    /\ UNCHANGED <<env, PermitClient, now, cache, setLog, throws, pdp, cups>>

\* config.PermitInit: CheckEnv("API_KEY"), then permit.New.
PermitInit ==
    /\ mainPc = "PermitInit"
    /\ LET apiKey == CheckEnv(env.API_KEY) IN
          IF apiKey.fatal
          THEN /\ mainPc' = "exit"
               /\ UNCHANGED PermitClient
          ELSE /\ mainPc' = "Router"
               /\ PermitClient' = "client"
    /\ UNCHANGED <<env, RedisClient, now, cache, setLog, throws, pdp, cups>>

\* main: router.Router(); http.ListenAndServe(":1224", r); an error is fatal.
ListenAndServe ==
    /\ mainPc = "Router"
    /\ \E bound \in BOOLEAN :
          mainPc' = IF bound THEN "serving" ELSE "exit"
    /\ UNCHANGED <<env, RedisClient, PermitClient, now, cache, setLog, throws, pdp, cups>>

\* api.Router() is exported and reads the package-level handles as they are:
\* mounted by a caller other than main (an httptest server) it serves the two
\* routes with both handles still at their zero value, nil.
Router ==
    /\ mainPc = "start"
    /\ mainPc' = "mounted"
    /\ UNCHANGED <<env, RedisClient, PermitClient, now, cache, setLog, throws, pdp, cups>>

Serving == mainPc \in {"serving", "mounted"}

\* ---------------------------------------------------------------------------
\* POST /throw
\* ---------------------------------------------------------------------------

\* The field test without its last operand.
MissingFieldsNoTarget(req) == req.UserID = "" \/ req.Action = ""

\* req.UserID == "" || req.Action == "" || req.Target == ""
MissingFields(req) == req.UserID = "" \/ req.Action = "" \/ req.Target = ""

\* The key built from the target (as the handler's error log line prints it).
RedisKeyByTarget(req) == "ball:" \o req.Target

\* redisKey := fmt.Sprintf("ball:%s", req.UserID)
RedisKey(req) == "ball:" \o req.UserID

\* Set called with the user as the value.
SetArgsValueUser(req) == [key |-> "ball:" \o req.UserID, value |-> req.UserID, ttl |-> TTL]

\* Set called with a zero expiration.
SetArgsNoExpiry(req) == [key |-> "ball:" \o req.UserID, value |-> req.Target, ttl |-> 0]

\* The arguments of RedisClient.Set(ctx, redisKey, req.Target, time.Minute*5)
SetArgs(req) == [key |-> RedisKey(req), value |-> req.Target, ttl |-> TTL]

\* The nil test inverted.
RedisUnavailableInverted(client) == client # "nil"

\* if config.RedisClient == nil
RedisUnavailable(client) == client = "nil"

\* The prologue with the handle test moved in front of the validation.
ThrowPrologueNilFirst(body, client) ==
    IF client = "nil"
    THEN [kind |-> body.kind, req |-> ZeroBallRequest, pc |-> "done", resp |-> <<503>>]
    ELSE IF body.kind = "unreadable" \/ body.kind = "malformed"
    THEN [kind |-> body.kind, req |-> ZeroBallRequest, pc |-> "done", resp |-> <<400>>]
    ELSE LET req == Unmarshal(body) IN
         IF req.UserID = "" \/ req.Action = "" \/ req.Target = ""
         THEN [kind |-> body.kind, req |-> req, pc |-> "done", resp |-> <<400>>]
         ELSE [kind |-> body.kind, req |-> req, pc |-> "Set", resp |-> <<>>]

\* throwBallHandler up to its first response or to the Redis call.
ThrowPrologue(body, client) ==
    IF body.kind = "unreadable"
    THEN [kind |-> body.kind, req |-> ZeroBallRequest, pc |-> "done", resp |-> <<400>>]
    ELSE IF body.kind = "malformed"
    THEN [kind |-> body.kind, req |-> ZeroBallRequest, pc |-> "done", resp |-> <<400>>]
    ELSE LET req == Unmarshal(body) IN
         IF MissingFields(req)
         THEN [kind |-> body.kind, req |-> req, pc |-> "done", resp |-> <<400>>]
         ELSE IF RedisUnavailable(client)
         THEN [kind |-> body.kind, req |-> req, pc |-> "done", resp |-> <<503>>]
         ELSE [kind |-> body.kind, req |-> req, pc |-> "Set", resp |-> <<>>]

throwBallHandler ==
    /\ Serving
    /\ Len(throws) < MaxThrows
    /\ \E body \in Bodies :
          throws' = Append(throws, ThrowPrologue(body, RedisClient))
    /\ UNCHANGED <<env, mainPc, RedisClient, PermitClient, now, cache, setLog, pdp, cups>>

\* Redis SET key value EX ttl at time t: the key's previous entry is replaced.
\* go-redis: a zero expiration means the key has no expiration time.
Store(c, key, value, ttl, t) ==
    { e \in c : e.key # key } \cup { [key |-> key, value |-> value, ttl |-> ttl, at |-> t] }

\* An entry is live until its expiry is reached.
Live(e, t) == e.ttl = 0 \/ t < e.at + e.ttl

\* The error branch without its return.
AfterSetNoReturn(rec, err) ==
    IF err
    THEN [rec EXCEPT !.pc = "WriteHeader", !.resp = Append(@, 500)]
    ELSE [rec EXCEPT !.pc = "WriteHeader"]

\* throwBallHandler after RedisClient.Set(...).Err(): an error is answered 500
\* and the handler returns; otherwise it goes on to WriteHeader.
AfterSet(rec, err) ==
    IF err
    THEN [rec EXCEPT !.pc = "done", !.resp = Append(@, 500)]
    ELSE [rec EXCEPT !.pc = "WriteHeader"]

\* config.RedisClient.Set(ctx, redisKey, req.Target, time.Minute*5)
RedisSet(i) ==
    /\ throws[i].pc = "Set"
    /\ \E err \in BOOLEAN :
          LET args == SetArgs(throws[i].req)
              call == [req |-> i, key |-> args.key, value |-> args.value,
                       ttl |-> args.ttl, at |-> now, err |-> err]
          IN /\ setLog' = Append(setLog, call)
             /\ cache' = IF err THEN cache
                         ELSE Store(cache, call.key, call.value, call.ttl, now)
             /\ throws' = [throws EXCEPT ![i] = AfterSet(@, err)]
    /\ UNCHANGED <<env, mainPc, RedisClient, PermitClient, now, pdp, cups>>

\* w.WriteHeader(http.StatusAccepted); Encode({"message": "Ball thrown!"})
Accepted(rec) == [rec EXCEPT !.pc = "done", !.resp = Append(@, 202)]

ThrowRespond(i) ==
    /\ throws[i].pc = "WriteHeader"
    /\ throws' = [throws EXCEPT ![i] = Accepted(@)]
    /\ UNCHANGED <<env, mainPc, RedisClient, PermitClient, now, cache, setLog, pdp, cups>>

\* A minute passes; Redis drops the keys whose expiry has been reached.
Tick ==
    /\ Serving
    /\ now < MaxTime
    /\ now' = now + 1
    /\ cache' = { e \in cache : Live(e, now + 1) }
    /\ UNCHANGED <<env, mainPc, RedisClient, PermitClient, setLog, throws, pdp, cups>>

\* ---------------------------------------------------------------------------
\* GET /cup/{cup_id}
\* ---------------------------------------------------------------------------

\* enforcement.UserBuilder(key).WithRoles({{Role: "user"}}).Build()
UserBuilder(key) == [Key |-> key, Roles |-> {"user"}]

\* The subject built from the user identity the request carries.
CupQueryOfCaller(cupID, carried) ==
    [user |-> UserBuilder(carried), action |-> "beer", resource |-> cupID]

\* The query cupHandler hands to PermitClient.Check: the subject is built from
\* a BallRequest that is declared and never filled in; nothing the request
\* carries besides the cup_id of its path is read.
CupQuery(cupID, carried) ==
    [user |-> UserBuilder(ZeroBallRequest.UserID), action |-> "beer", resource |-> cupID]

\* _, cancel := context.WithTimeout(context.Background(), 10*time.Second)
WithTimeout(seconds) == [bounded |-> TRUE, timeout |-> seconds]

\* The context the Check call runs under.  The context made by WithTimeout is
\* assigned to the blank identifier and Check(userID, "beer", resource) takes
\* none, so the call carries no deadline.
CheckContext(ctx) == [bounded |-> FALSE, timeout |-> 0]

\* cupHandler up to the PermitClient.Check call: a nil handle is answered 500
\* and the handler goes on.
CupPrologue(cupID, carried, client) ==
    [cupID |-> cupID,
     resp |-> IF client = "nil" THEN << [status |-> 500, cup |-> ""] >> ELSE <<>>,
     query |-> CupQuery(cupID, carried),
     checks |-> 0,
     nilCheck |-> FALSE,
     result |-> [allowed |-> FALSE, err |-> FALSE],
     ctx |-> WithTimeout(CtxTimeout),
     checkCtx |-> CheckContext(WithTimeout(CtxTimeout)),
     elapsed |-> 0,
     pc |-> "Check"]

cupHandler ==
    /\ Serving
    /\ Len(cups) < MaxCups
    /\ \E cupID \in CupIDs, carried \in UserIDs :
          cups' = Append(cups, CupPrologue(cupID, carried, PermitClient))
    /\ UNCHANGED <<env, mainPc, RedisClient, PermitClient, now, cache, setLog, throws, pdp>>

\* The grants the policy-decision service can hold.
PdpSubjects == {"", "alice"}
Grants == [key : PdpSubjects, action : {"beer"}, resource : CupIDs]

\* The service's answer to check(subject, action, resource).
Permits(policy, q) ==
    [key |-> q.user.Key, action |-> q.action, resource |-> q.resource] \in policy

\* The error branch without its return: the verdict is written as well.
CupVerdictNoReturn(rec, allowed, err) ==
    LET r == IF err THEN [rec EXCEPT !.resp = Append(@, [status |-> 500, cup |-> ""])]
             ELSE rec
    IN IF allowed
       THEN [r EXCEPT !.pc = "done", !.resp = Append(@, [status |-> 200, cup |-> rec.cupID])]
       ELSE [r EXCEPT !.pc = "done", !.resp = Append(@, [status |-> 403, cup |-> ""])]

\* The error test dropped: a failed check falls through to the verdict, and
\* the verdict defaults to granted.
CupVerdictFailOpen(rec, allowed, err) ==
    IF allowed \/ err
    THEN [rec EXCEPT !.pc = "done", !.resp = Append(@, [status |-> 200, cup |-> rec.cupID])]
    ELSE [rec EXCEPT !.pc = "done", !.resp = Append(@, [status |-> 403, cup |-> ""])]

\* cupHandler after Check returns (allowed, err).
CupVerdict(rec, allowed, err) ==
    IF err
    THEN [rec EXCEPT !.pc = "done", !.resp = Append(@, [status |-> 500, cup |-> ""])]
    ELSE IF allowed
    THEN [rec EXCEPT !.pc = "done", !.resp = Append(@, [status |-> 200, cup |-> rec.cupID])]
    ELSE [rec EXCEPT !.pc = "done", !.resp = Append(@, [status |-> 403, cup |-> ""])]

\* A call whose context has reached its deadline returns with an error.
DeadlineExceeded(rec) == rec.checkCtx.bounded /\ rec.elapsed >= rec.checkCtx.timeout

\* A second passes while the policy-decision service has not answered the
\* Check of request i.
CupWait(i) ==
    /\ cups[i].pc = "Check"
    /\ PermitClient = "client"
    /\ cups[i].elapsed < MaxWait
    /\ ~DeadlineExceeded(cups[i])
    /\ cups' = [cups EXCEPT ![i] = [@ EXCEPT !.elapsed = @ + 1]]
    /\ UNCHANGED <<env, mainPc, RedisClient, PermitClient, now, cache, setLog, throws, pdp>>

\* allowed, err := config.PermitClient.Check(userID, "beer", resource)
\* On a nil *permit.Client the call dereferences nil and the goroutine panics.
\* When the handler returns, the deferred cancel() releases the context and
\* its timer: elapsed, the age of the live context, is back at 0.
PermitCheck(i) ==
    /\ cups[i].pc = "Check"
    /\ IF PermitClient = "nil"
       THEN cups' = [cups EXCEPT ![i] = [@ EXCEPT !.pc = "panic", !.checks = @ + 1,
                                                  !.nilCheck = TRUE]]
       ELSE \E err \in BOOLEAN :
               LET allowed == ~err /\ Permits(pdp, cups[i].query) IN
               /\ DeadlineExceeded(cups[i]) => err
               /\ cups' = [cups EXCEPT ![i] =
                              CupVerdict([@ EXCEPT !.checks = @ + 1,
                                                   !.elapsed = 0,
                                                   !.result = [allowed |-> allowed,
                                                               err |-> err]],
                                         allowed, err)]
    /\ UNCHANGED <<env, mainPc, RedisClient, PermitClient, now, cache, setLog, throws, pdp>>

\* The policy is edited at the policy-decision service.
PdpUpdate ==
    /\ \E g \in Grants :
          pdp' = IF g \in pdp THEN pdp \ {g} ELSE pdp \cup {g}
    /\ UNCHANGED <<env, mainPc, RedisClient, PermitClient, now, cache, setLog, throws, cups>>

\* ---------------------------------------------------------------------------
\* Specifications
\* ---------------------------------------------------------------------------

Startup == LoadEnv \/ RedisInit \/ PermitInit \/ ListenAndServe \/ Router

ThrowSteps ==
    \/ throwBallHandler
    \/ \E i \in 1..Len(throws) : RedisSet(i)
    \/ \E i \in 1..Len(throws) : ThrowRespond(i)
    \/ Tick

CupSteps ==
    \/ cupHandler
    \/ \E i \in 1..Len(cups) : CupWait(i)
    \/ \E i \in 1..Len(cups) : PermitCheck(i)
    \/ PdpUpdate

Next == Startup \/ ThrowSteps \/ CupSteps

Spec == Init /\ [][Next]_vars

\* The service under POST /throw traffic only.
NextThrow == Startup \/ ThrowSteps
SpecThrow == Init /\ [][NextThrow]_vars

\* The service under GET /cup traffic only.
NextCup == Startup \/ CupSteps
SpecCup == Init /\ [][NextCup]_vars

\* Throws and cup requests side by side, a few of each, on a frozen clock.
NextMixed ==
    \/ Startup
    \/ (Len(throws) < MixedThrows /\ throwBallHandler)
    \/ \E i \in 1..Len(throws) : RedisSet(i)
    \/ \E i \in 1..Len(throws) : ThrowRespond(i)
    \/ (Len(cups) < MixedCups /\ cupHandler)
    \/ \E i \in 1..Len(cups) : PermitCheck(i)
    \/ PdpUpdate
SpecMixed == Init /\ [][NextMixed]_vars

\* ---------------------------------------------------------------------------
\* Properties
\* ---------------------------------------------------------------------------

\* The RedisClient.Set calls issued by throw request i.
SetsOf(i) == { k \in 1..Len(setLog) : setLog[k].req = i }

\* The status codes a throw request has written.
Statuses(rec) == { rec.resp[n] : n \in 1..Len(rec.resp) }

EmptyField(req) == req.UserID = "" \/ req.Action = "" \/ req.Target = ""

ValidThrow(rec) == rec.kind = "json" /\ ~EmptyField(rec.req)

\* The last successful Set on a key, 0 if there is none.
LastSet(key) ==
    LET ok == { k \in 1..Len(setLog) : setLog[k].key = key /\ ~setLog[k].err }
    IN IF ok = {} THEN 0 ELSE CHOOSE k \in ok : \A j \in ok : j <= k

\* Reading a key from the cache.
Get(key) ==
    LET es == { e \in cache : e.key = key }
    IN IF es = {} THEN "absent" ELSE (CHOOSE e \in es : TRUE).value

\* C1: a throw whose parsed body has an empty user_id, action or target is
\* answered 400 and nothing else, and no Set call is ever issued for it,
\* whatever the cache holds.
C1_MissingFieldRejected ==
    \A i \in 1..Len(throws) :
        (throws[i].kind = "json" /\ EmptyField(throws[i].req))
            => /\ throws[i].resp = <<400>>
               /\ throws[i].pc = "done"
               /\ SetsOf(i) = {}

\* C1 witness: a rejected throw with an empty target, while the handle is set
\* and the cache holds an entry of another throw.
C1_Witness ==
    /\ RedisClient = "client"
    /\ cache # {}
    /\ \E i \in 1..Len(throws) :
          /\ throws[i].kind = "json"
          /\ throws[i].req.UserID # ""
          /\ throws[i].req.Target = ""
          /\ throws[i].resp = <<400>>

\* C2: a valid throw whose Set succeeded issued exactly one Set, on key
\* "ball:"+user_id with the target as value and a 5-minute expiry, and once it
\* has returned its only response is 202; a 202 is never written unless the
\* request's Set has succeeded before, and nothing is written before the Set.
C2_AcceptedAfterOneWrite ==
    \A i \in 1..Len(throws) :
        /\ (ValidThrow(throws[i]) /\ RedisClient = "client"
              /\ \E k \in SetsOf(i) : ~setLog[k].err)
             => /\ Cardinality(SetsOf(i)) = 1
                /\ \A k \in SetsOf(i) :
                      /\ setLog[k].key = "ball:" \o throws[i].req.UserID
                      /\ setLog[k].value = throws[i].req.Target
                      /\ setLog[k].ttl = 5
                /\ throws[i].pc = "done" => throws[i].resp = <<202>>
                /\ throws[i].pc # "done" => throws[i].resp = <<>>
        /\ 202 \in Statuses(throws[i])
             => \E k \in SetsOf(i) : ~setLog[k].err
        /\ throws[i].pc = "Set" => throws[i].resp = <<>>

\* C2 witness: two users' throws both accepted.
C2_Witness ==
    /\ Len(throws) = 2
    /\ throws[1].req.UserID = "alice" /\ throws[1].resp = <<202>>
    /\ throws[2].req.UserID = "bob" /\ throws[2].resp = <<202>>
    /\ Len(setLog) = 2

\* C3: while the Redis handle is nil every valid throw is answered 503 and
\* nothing else, no Set call is ever issued, and the cache stays as it was.
C3_NilCacheUnavailable ==
    RedisClient = "nil"
        => /\ \A i \in 1..Len(throws) :
                 ValidThrow(throws[i])
                    => throws[i].resp = <<503>> /\ throws[i].pc = "done"
           /\ setLog = <<>>
           /\ cache = {}

\* C3 witness: main's ping failed, and the same valid throw was made twice.
C3_Witness ==
    /\ mainPc = "serving"
    /\ RedisClient = "nil"
    /\ Len(throws) = 2
    /\ throws[1] = throws[2]
    /\ ValidThrow(throws[1])
    /\ throws[1].resp = <<503>>

\* C4: with the Permit client set, a cup request that has returned wrote
\* exactly one response: 200 echoing its cup_id if the check permitted, 403
\* if it denied, 500 if it failed; nothing is written before the check.
C4_CupOutcome ==
    PermitClient = "client"
        => \A i \in 1..Len(cups) :
              /\ cups[i].pc = "Check" => cups[i].resp = <<>>
              /\ cups[i].pc = "done"
                    => /\ Len(cups[i].resp) = 1
                       /\ cups[i].checks = 1
                       /\ cups[i].result.err
                             => cups[i].resp[1] = [status |-> 500, cup |-> ""]
                       /\ (~cups[i].result.err /\ cups[i].result.allowed)
                             => cups[i].resp[1] = [status |-> 200, cup |-> cups[i].cupID]
                       /\ (~cups[i].result.err /\ ~cups[i].result.allowed)
                             => cups[i].resp[1] = [status |-> 403, cup |-> ""]
              /\ cups[i].pc \in {"Check", "done"}

\* C4 witness: one cup request granted and another denied under the same handle.
C4_Witness ==
    /\ PermitClient = "client"
    /\ \E i, j \in 1..Len(cups) :
          /\ cups[i].pc = "done" /\ cups[i].resp[1].status = 200
          /\ cups[i].resp[1].cup = cups[i].cupID
          /\ cups[j].pc = "done" /\ cups[j].resp[1].status = 403

\* C5: with the Permit handle nil, a cup request writes 500 and nothing else,
\* and Check is never called on the nil handle.
C5_NilPermitHalts ==
    PermitClient = "nil"
        => \A i \in 1..Len(cups) :
              /\ cups[i].resp = << [status |-> 500, cup |-> ""] >>
              /\ cups[i].checks = 0
              /\ ~cups[i].nilCheck
              /\ cups[i].pc # "panic"

\* C6: a throw whose Set failed is answered 500 and nothing else, issued that
\* one Set only, and every entry the cache holds was put there by a Set that
\* succeeded.
C6_WriteFailure ==
    /\ \A i \in 1..Len(throws) :
          (\E k \in SetsOf(i) : setLog[k].err)
             => /\ throws[i].resp = <<500>>
                /\ throws[i].pc = "done"
                /\ Cardinality(SetsOf(i)) = 1
    /\ \A e \in cache :
          \E k \in 1..Len(setLog) :
             /\ ~setLog[k].err
             /\ e = [key |-> setLog[k].key, value |-> setLog[k].value,
                     ttl |-> setLog[k].ttl, at |-> setLog[k].at]

\* C6 witness: a failed throw of bob's next to an accepted one of alice's;
\* the cache holds alice's entry alone.
C6_Witness ==
    /\ Len(throws) = 2
    /\ throws[1].req.UserID = "alice" /\ throws[1].resp = <<202>>
    /\ throws[2].req.UserID = "bob" /\ throws[2].resp = <<500>>
    /\ Cardinality(cache) = 1

\* The successful Set calls made for throws of user u.
WritesOf(u) ==
    { k \in 1..Len(setLog) : ~setLog[k].err /\ throws[setLog[k].req].req.UserID = u }

\* The throw of user u whose write was applied last.
LastThrowOf(u) == setLog[CHOOSE k \in WritesOf(u) : \A j \in WritesOf(u) : j <= k].req

\* C7: once two throws of one user have been accepted, the cache never holds
\* more than one entry for that user, no entry of the user's under any other
\* key, and, as long as the write applied last has not expired, exactly one
\* entry "ball:"+user_id whose value is the target of the throw whose write
\* was applied last, in whatever order the two requests' steps ran.
C7_LastWriteWins ==
    \A u \in UserIDs \ {""} :
        LET acc == { i \in 1..Len(throws) :
                        throws[i].req.UserID = u /\ throws[i].resp = <<202>> }
            es == { e \in cache : e.key = "ball:" \o u }
        IN Cardinality(acc) >= 2
              => /\ Cardinality(es) <= 1
                 /\ Cardinality(cache)
                       <= Cardinality({ v \in UserIDs : WritesOf(v) # {} })
                 /\ now < setLog[CHOOSE k \in WritesOf(u) :
                                    \A j \in WritesOf(u) : j <= k].at + 5
                       => /\ Cardinality(es) = 1
                          /\ \A e \in es : e.value = throws[LastThrowOf(u)].req.Target

\* C7 witness: alice's two throws at different cups, the second to arrive
\* written first; the cache holds the target of the first to arrive.
C7_Witness ==
    /\ Len(throws) = 2
    /\ throws[1].req.UserID = "alice" /\ throws[1].resp = <<202>>
    /\ throws[2].req.UserID = "alice" /\ throws[2].resp = <<202>>
    /\ throws[1].req.Target = "cup3" /\ throws[2].req.Target = "cup7"
    /\ Len(setLog) = 2
    /\ setLog[1].req = 2 /\ setLog[2].req = 1
    /\ cache # {}
    /\ \A e \in cache : e.key = "ball:alice" /\ e.value = "cup3"

\* C8: for an accepted throw of user u at target t with no later write by u,
\* reading "ball:"+u yields t until 5 minutes after the write and finds the
\* key absent from then on; and a key leaves the cache only once 5 minutes
\* have passed since it was written.
C8_RoundTripAndExpiry ==
    /\ [](\A u \in UserIDs \ {""} :
            (WritesOf(u) # {} /\ throws[LastThrowOf(u)].resp = <<202>>)
               => LET k == CHOOSE k \in WritesOf(u) : \A j \in WritesOf(u) : j <= k
                  IN /\ now < setLog[k].at + 5
                          => Get("ball:" \o u) = throws[LastThrowOf(u)].req.Target
                     /\ now >= setLog[k].at + 5
                          => Get("ball:" \o u) = "absent")
    /\ [][\A e \in cache :
             (\A f \in cache' : f.key # e.key) => now' >= e.at + 5]_vars

\* C8 witness: alice's entry, written at minute 0, is gone at minute 5 while
\* bob's, written later, still reads back.
C8_Witness ==
    /\ now = 5
    /\ Len(throws) = 2
    /\ throws[1].req.UserID = "alice" /\ throws[1].resp = <<202>>
    /\ throws[2].req.UserID = "bob" /\ throws[2].resp = <<202>>
    /\ setLog[1].at = 0
    /\ Get("ball:alice") = "absent"
    /\ Get("ball:bob") = throws[2].req.Target

\* C9: when main runs with .env failing to load or API_KEY empty it never
\* reaches the router or ListenAndServe, and no request is handled.
C9_MissingConfigFatal ==
    (mainPc # "mounted" /\ (~env.dotenv \/ env.API_KEY = ""))
        => /\ mainPc \in {"start", "RedisInit", "PermitInit", "exit"}
           /\ PermitClient = "nil"
           /\ throws = <<>>
           /\ cups = <<>>

\* C9 witness: .env loaded without API_KEY; main exited out of PermitInit.
C9_Witness ==
    /\ env.dotenv
    /\ env.API_KEY = ""
    /\ mainPc = "exit"
    /\ cups = <<>>

\* C10: a throw whose body is unreadable, is not JSON or lacks user_id,
\* action or target is answered 400 and nothing else and issues no Set,
\* whether the Redis handle is nil or set.
C10_ValidationFirst ==
    \A i \in 1..Len(throws) :
        (\/ throws[i].kind \in {"unreadable", "malformed"}
         \/ throws[i].req.UserID = ""
         \/ throws[i].req.Action = ""
         \/ throws[i].req.Target = "")
            => /\ throws[i].resp = <<400>>
               /\ throws[i].pc = "done"
               /\ SetsOf(i) = {}

\* C10 witness: with the handle nil, a body that is not JSON got 400 while a
\* valid throw got 503.
C10_Witness ==
    /\ RedisClient = "nil"
    /\ Len(throws) = 2
    /\ throws[1].kind = "malformed" /\ throws[1].resp = <<400>>
    /\ ValidThrow(throws[2]) /\ throws[2].resp = <<503>>

\* C11: a cup request carries an "Access granted!" (200) response only if
\* Check was called for it on a non-nil handle and returned permitted with no
\* error; a failed check, a denial and a nil handle never grant.
C11_FailClosed ==
    \A i \in 1..Len(cups) :
        \A n \in 1..Len(cups[i].resp) :
            cups[i].resp[n].status = 200
               => /\ PermitClient = "client"
                  /\ cups[i].checks = 1
                  /\ ~cups[i].nilCheck
                  /\ cups[i].result.allowed
                  /\ ~cups[i].result.err

\* C11 witness: a check that failed was answered 500 next to one that was
\* permitted and answered granted.
C11_Witness ==
    \E i, j \in 1..Len(cups) :
        /\ cups[i].pc = "done" /\ cups[i].result.err
        /\ cups[i].resp = << [status |-> 500, cup |-> ""] >>
        /\ cups[j].pc = "done" /\ cups[j].result.allowed
        /\ cups[j].resp[1].status = 200

\* C12: the Check of a cup request runs under the 10-second deadline: a
\* request is never still waiting for the policy-decision service once more
\* than 10 seconds have passed since its context was made.
C12_CheckDeadline ==
    \A i \in 1..Len(cups) :
        (PermitClient = "client" /\ cups[i].pc = "Check")
           => cups[i].elapsed <= 10

\* C13: whatever a cup request carries and whatever throws were recorded, the
\* query handed to Check has the empty user key with the one role "user", the
\* action "beer" and the path's cup_id as resource; and the verdict of an
\* answered check is fixed by the cup_id and the policy alone (permitted
\* exactly if the policy grants the empty user "beer" on that cup), so two
\* requests for one cup under one policy get the same decision.
C13_SubjectIgnoresCaller ==
    /\ [](\A i \in 1..Len(cups) :
             cups[i].query = [user |-> [Key |-> "", Roles |-> {"user"}],
                              action |-> "beer", resource |-> cups[i].cupID])
    /\ [][\A i \in 1..Len(cups) :
             (cups[i].pc = "Check" /\ cups'[i].pc = "done" /\ ~cups'[i].result.err)
                => LET granted == [key |-> "", action |-> "beer",
                                   resource |-> cups[i].cupID] \in pdp
                   IN /\ cups'[i].result.allowed = granted
                      /\ cups'[i].resp[1].status = IF granted THEN 200 ELSE 403]_vars

\* C13 witness: alice's throw at cup3 is in the cache and the policy grants
\* alice, not the empty user, "beer" on cup3; the request for cup3 is denied.
C13_Witness ==
    /\ \E e \in cache : e.key = "ball:alice" /\ e.value = "cup3"
    /\ pdp = { [key |-> "alice", action |-> "beer", resource |-> "cup3"] }
    /\ \E i \in 1..Len(cups) :
          /\ cups[i].cupID = "cup3"
          /\ cups[i].pc = "done"
          /\ ~cups[i].result.err
          /\ cups[i].resp = << [status |-> 403, cup |-> ""] >>

====
